---- MODULE Spec2Model ----
(***************************************************************************)
(* A model of word_enumerator.py: the alphabet builder, the exact          *)
(* combination counter, the lazy enumerator (a Python generator driving    *)
(* itertools.product), the random sampler and the control flow of main.    *)
(*                                                                         *)
(* A character is a one-character string, a Python str is a sequence of    *)
(* characters, and a Python int that can grow without bound (the total) is *)
(* a sequence of limbs, least significant first, so that totals far above  *)
(* 2^63 are computed exactly.                                              *)
(***************************************************************************)
EXTENDS Integers, Sequences, FiniteSets, TLC

\* ------------------------------------------------------------------ bounds
\* longest extra_special string tried with build_charset
MaxExtra == 2
\* largest alphabet size and exponents tried with total_combinations
MaxBase == 70
MaxLo == 3
MaxExp == 20
\* longest alphabet and longest word tried with enumerate_all
MaxAlpha == 3
MaxLen == 3
\* longest alphabet, longest word and largest count tried with sample_random
MaxSampleAlpha == 2
MaxSampleLen == 2
MaxCount == 2
\* largest length given to main
MaxMainLen == 2

\* --------------------------------------------------------------- constants
DEFAULT_MAX == 1000000

ascii_lowercase ==
  << "a","b","c","d","e","f","g","h","i","j","k","l","m",
     "n","o","p","q","r","s","t","u","v","w","x","y","z" >>

ascii_uppercase ==
  << "A","B","C","D","E","F","G","H","I","J","K","L","M",
     "N","O","P","Q","R","S","T","U","V","W","X","Y","Z" >>

digits == << "0","1","2","3","4","5","6","7","8","9" >>

common_specials ==
  << "!","@","#","$","%","^","&","*","(",")","-","_","=","+",
     "[","]","{","}",";",":",",",".","<",">","/","?" >>

\* ------------------------------------------------------------ str helpers
Range(s) == { s[i] : i \in 1..Len(s) }

\* a mutant of fromkeys that keeps every character
fromkeys_keepall(s) == s

\* "".join(dict.fromkeys(s)): a dict keeps its keys in insertion order and
\* inserting a key it already holds changes nothing, so what is left of s is
\* the first occurrence of every character, in the order of s
fromkeys(s) ==
  LET keep == { i \in 1..Len(s) : \A j \in 1..(i - 1) : s[j] # s[i] }
      rank == [i \in keep |-> Cardinality({ j \in keep : j <= i })]
  IN [k \in 1..Cardinality(keep) |-> s[CHOOSE i \in keep : rank[i] = k]]

\* the parts list of build_charset, joined
charset_parts(use_lower, use_upper, use_digits, use_special, extra_special) ==
  (IF use_lower THEN ascii_lowercase ELSE << >>)
  \o (IF use_upper THEN ascii_uppercase ELSE << >>)
  \o (IF use_digits THEN digits ELSE << >>)
  \o (IF use_special THEN common_specials \o extra_special ELSE << >>)

build_charset(use_lower, use_upper, use_digits, use_special, extra_special) ==
  fromkeys(charset_parts(use_lower, use_upper, use_digits, use_special, extra_special))

\* ------------------------------------------------ unbounded Python integers
\* A non-negative int is its limbs in base BigBase, least significant first,
\* without leading zero limbs; zero is the empty sequence.
BigBase == 10000

RECURSIVE BigFromInt(_)
BigFromInt(k) ==
  IF k = 0 THEN << >> ELSE << k % BigBase >> \o BigFromInt(k \div BigBase)

RECURSIVE BigAddC(_, _, _)
BigAddC(x, y, carry) ==
  IF x = << >> /\ y = << >>
  THEN (IF carry = 0 THEN << >> ELSE << carry >>)
  ELSE LET a == IF x = << >> THEN 0 ELSE Head(x)
           b == IF y = << >> THEN 0 ELSE Head(y)
           s == a + b + carry
       IN << s % BigBase >>
          \o BigAddC(IF x = << >> THEN x ELSE Tail(x),
                     IF y = << >> THEN y ELSE Tail(y),
                     s \div BigBase)

BigAdd(x, y) == BigAddC(x, y, 0)

\* x * k for a small int k >= 1
RECURSIVE BigMulC(_, _, _)
BigMulC(x, k, carry) ==
  IF x = << >>
  THEN BigFromInt(carry)
  ELSE LET p == Head(x) * k + carry
       IN << p % BigBase >> \o BigMulC(Tail(x), k, p \div BigBase)

BigMulSmall(x, k) == BigMulC(x, k, 0)

\* pow(base, e) for base >= 1, e >= 0
RECURSIVE BigPow(_, _)
BigPow(base, e) ==
  IF e = 0 THEN << 1 >> ELSE BigMulSmall(BigPow(base, e - 1), base)

\* x > y, comparing from the most significant limb
RECURSIVE BigGtSameLen(_, _)
BigGtSameLen(x, y) ==
  IF x = << >> THEN FALSE
  ELSE LET n == Len(x)
       IN IF x[n] # y[n] THEN x[n] > y[n]
          ELSE BigGtSameLen(SubSeq(x, 1, n - 1), SubSeq(y, 1, n - 1))

BigGt(x, y) ==
  IF Len(x) # Len(y) THEN Len(x) > Len(y) ELSE BigGtSameLen(x, y)

\* total > k for a Python int k of any sign, total >= 0
BigGtInt(x, k) == IF k < 0 THEN TRUE ELSE BigGt(x, BigFromInt(k))

\* --------------------------------------------------------- total_combinations
\* the loop of lines 37-40: for L in range(lo, hi + 1): total += pow(n, L)
RECURSIVE sum_pow(_, _, _, _)
sum_pow(n, L, hi, acc) ==
  IF L > hi THEN acc ELSE sum_pow(n, L + 1, hi, BigAdd(acc, BigPow(n, L)))

\* a mutant of total_combinations on a fixed-width integer: the total wraps
\* around at BigBase^4
total_combinations_wrap(charset_len, a, b) ==
  IF charset_len <= 0 \/ a < 1 \/ b < a
  THEN << >>
  ELSE LET t == sum_pow(charset_len, a, b, << >>)
       IN IF Len(t) <= 4 THEN t ELSE SubSeq(t, 1, 4)

\* a mutant of total_combinations whose guard lets min_len = 0 through
total_combinations_min0(charset_len, a, b) ==
  IF charset_len <= 0 \/ a < 0 \/ b < a
  THEN << >>
  ELSE sum_pow(charset_len, a, b, << >>)

total_combinations(charset_len, a, b) ==
  IF charset_len <= 0 \/ a < 1 \/ b < a
  THEN << >>
  ELSE sum_pow(charset_len, a, b, << >>)

\* ------------------------------------------------------------ enumerate_all
\* itertools.product(charset, repeat=L) keeps one index per position; the
\* first tuple has every index at the first symbol
product_first(L) == [i \in 1..L |-> 1]

\* a mutant of product_advance that advances the first position fastest
product_advance_leftmost(indices, n) ==
  LET movable == { i \in 1..Len(indices) : indices[i] < n }
  IN IF movable = {} THEN << >>
     ELSE LET k == CHOOSE i \in movable : \A j \in movable : i <= j
          IN [i \in 1..Len(indices) |->
                IF i > k THEN indices[i] ELSE IF i = k THEN indices[k] + 1 ELSE 1]

\* the next tuple of the product: the rightmost index that can still move
\* is advanced and every index to its right starts over; << >> when the
\* product is exhausted
product_advance(indices, n) ==
  LET movable == { i \in 1..Len(indices) : indices[i] < n }
  IN IF movable = {} THEN << >>
     ELSE LET k == CHOOSE i \in movable : \A j \in movable : i >= j
          IN [i \in 1..Len(indices) |->
                IF i < k THEN indices[i] ELSE IF i = k THEN indices[k] + 1 ELSE 1]

\* "".join(tup)
join_tuple(cs, indices) == [i \in 1..Len(indices) |-> cs[indices[i]]]

NoGen ==
  [state |-> "none", charset |-> << >>, min_len |-> 0, max_len |-> 0,
   L |-> 0, indices |-> << >>]

\* Calling a generator function runs none of its body: the call returns a
\* generator object that holds the arguments.
enumerate_all(cs, lo, hi) ==
  [state |-> "created", charset |-> cs, min_len |-> lo, max_len |-> hi,
   L |-> 0, indices |-> << >>]

\* a mutant of gen_enter_length whose range stops one length early
gen_enter_length_short(g, L) ==
  IF L > g.max_len - 1
  THEN [kind |-> "stop", word |-> << >>,
        gen |-> [g EXCEPT !.state = "done", !.L = L, !.indices = << >>]]
  ELSE [kind |-> "yield", word |-> join_tuple(g.charset, product_first(L)),
        gen |-> [g EXCEPT !.state = "suspended", !.L = L, !.indices = product_first(L)]]

\* the outer loop reaches length L: for L in range(min_len, max_len + 1)
gen_enter_length(g, L) ==
  IF L > g.max_len
  THEN [kind |-> "stop", word |-> << >>,
        gen |-> [g EXCEPT !.state = "done", !.L = L, !.indices = << >>]]
  ELSE [kind |-> "yield", word |-> join_tuple(g.charset, product_first(L)),
        gen |-> [g EXCEPT !.state = "suspended", !.L = L, !.indices = product_first(L)]]

\* next(g): run the body of enumerate_all up to its next yield, its raise or
\* its end
gen_next(g) ==
  IF g.state = "created"
  THEN IF g.charset = << >> \/ g.min_len < 1 \/ g.max_len < g.min_len
       THEN [kind |-> "raise", word |-> << >>, gen |-> [g EXCEPT !.state = "raised"]]
       ELSE gen_enter_length(g, g.min_len)
  ELSE LET nxt == product_advance(g.indices, Len(g.charset))
       IN IF nxt # << >>
          THEN [kind |-> "yield", word |-> join_tuple(g.charset, nxt),
                gen |-> [g EXCEPT !.indices = nxt]]
          ELSE gen_enter_length(g, g.L + 1)

\* ------------------------------------------------------------ sample_random
\* the lists sample_random can return: every secrets.choice(charset) is any
\* symbol of the charset; range(k) is empty for k <= 0
sample_random_short(cs, length, count) ==
  { [k \in 1..count |-> [j \in 1..(length - 1) |-> cs[f[k][j]]]] :
      f \in [1..count -> [1..(length - 1) -> 1..Len(cs)]] }

sample_random(cs, length, count) ==
  { [k \in 1..count |-> [j \in 1..length |-> cs[f[k][j]]]] :
      f \in [1..count -> [1..length -> 1..Len(cs)]] }

\* ------------------------------------------------------------------- main
\* the cap test of main, lines 128-139, as the decision it takes; a refusal
\* carries the total and the cap of its diagnostic
gate_ge(t, cap, force) ==
  IF t = << >> THEN [kind |-> "NothingToDo", report |-> << >>]
  ELSE IF (BigGtInt(t, cap) \/ t = BigFromInt(IF cap < 0 THEN 0 ELSE cap)) /\ ~force
       THEN [kind |-> "Refuse", report |-> << t, cap >>]
       ELSE [kind |-> "Proceed", report |-> << >>]

gate_ignore_cap(t, cap, force) ==
  IF t = << >> THEN [kind |-> "NothingToDo", report |-> << >>]
  ELSE [kind |-> "Proceed", report |-> << >>]

gate(t, cap, force) ==
  IF t = << >> THEN [kind |-> "NothingToDo", report |-> << >>]
  ELSE IF BigGtInt(t, cap) /\ ~force
       THEN [kind |-> "Refuse", report |-> << t, cap >>]
       ELSE [kind |-> "Proceed", report |-> << >>]

NoDecision == [kind |-> "none", report |-> << >>]

\* ------------------------------------------------------------------ state
VARIABLES
  pc,          \* the statement the operation under way has reached
  args,        \* the arguments of the operation (for main: the parsed flags)
  charset,     \* main's charset, or the result of build_charset
  min_len,     \* main's min_len
  max_len,     \* main's max_len
  total,       \* main's total, or the result of total_combinations
  gen,         \* the generator object of enumerate_all
  prev,        \* the word yielded before the last one
  last,        \* the last word yielded (or written by main)
  yieldCount,  \* how many words the generator has yielded
  perLen,      \* how many words of each length it has yielded
  samples,     \* the list returned by sample_random
  out_f,       \* the output sink: "none", "open" or "closed"
  written,     \* lines written to the sink (main's i for the enumeration)
  status,      \* main's exit status: << >> while running, then << 0 >> or << 1 >>
  decision,    \* what the cap test decided
  capChecks,   \* how many times args.cap has been read
  error        \* the exception that ended the operation, or "none"

vars ==
  << pc, args, charset, min_len, max_len, total, gen, prev, last, yieldCount,
     perLen, samples, out_f, written, status, decision, capChecks, error >>

BoundedSeq(S, n) == UNION { [1..k -> S] : k \in 0..n }

LenDom == 0..(MaxLen + MaxMainLen + 2)

\* everything but pc and args, as it is before the operation starts
Locals0 ==
  /\ charset = << >>
  /\ min_len = 0
  /\ max_len = 0
  /\ total = << >>
  /\ gen = NoGen
  /\ prev = << >>
  /\ last = << >>
  /\ yieldCount = 0
  /\ perLen = [l \in LenDom |-> 0]
  /\ samples = << >>
  /\ out_f = "none"
  /\ written = 0
  /\ status = << >>
  /\ decision = NoDecision
  /\ capChecks = 0
  /\ error = "none"

\* ------------------------------------------------- build_charset on its own
ExtraChars == { "a", "7", "!", "~" }

InitCharset ==
  /\ pc = "charset_call"
  /\ args \in [ use_lower : BOOLEAN, use_upper : BOOLEAN, use_digits : BOOLEAN,
                use_special : BOOLEAN, extra_special : BoundedSeq(ExtraChars, MaxExtra) ]
  /\ Locals0

CallBuildCharset ==
  /\ pc = "charset_call"
  /\ charset' = build_charset(args.use_lower, args.use_upper, args.use_digits,
                              args.use_special, args.extra_special)
  /\ pc' = "charset_done"
  /\ UNCHANGED << args, min_len, max_len, total, gen, prev, last, yieldCount, perLen,
                  samples, out_f, written, status, decision, capChecks, error >>

NextCharset == CallBuildCharset

SpecCharset == InitCharset /\ [][NextCharset]_vars

\* -------------------------------------------- total_combinations on its own
InitCount ==
  /\ pc = "count_call"
  /\ args \in [ charset_len : (-1)..MaxBase, min_len : (-1)..MaxLo, max_len : (-1)..MaxExp ]
  /\ Locals0

CallTotalCombinations ==
  /\ pc = "count_call"
  /\ total' = total_combinations(args.charset_len, args.min_len, args.max_len)
  /\ pc' = "count_done"
  /\ UNCHANGED << args, charset, min_len, max_len, gen, prev, last, yieldCount, perLen,
                  samples, out_f, written, status, decision, capChecks, error >>

NextCount == CallTotalCombinations

SpecCount == InitCount /\ [][NextCount]_vars

\* ------------------------------------------------- enumerate_all on its own
EnumSymbols == { "a", "b", "c" }

InitEnum ==
  /\ pc = "enum_call"
  /\ args \in [ charset : BoundedSeq(EnumSymbols, MaxAlpha),
                min_len : 0..MaxLen, max_len : 0..MaxLen ]
  /\ Locals0

\* g = enumerate_all(charset, min_len, max_len)
CallEnumerateAll ==
  /\ pc = "enum_call"
  /\ gen' = enumerate_all(args.charset, args.min_len, args.max_len)
  /\ pc' = "enum_iterating"
  /\ UNCHANGED << args, charset, min_len, max_len, total, prev, last, yieldCount, perLen,
                  samples, out_f, written, status, decision, capChecks, error >>

\* the consumer asks for the next word
NextWord ==
  /\ pc = "enum_iterating"
  /\ LET r == gen_next(gen)
     IN /\ gen' = r.gen
        /\ IF r.kind = "yield"
           THEN /\ prev' = last
                /\ last' = r.word
                /\ yieldCount' = yieldCount + 1
                /\ perLen' = [perLen EXCEPT ![Len(r.word)] = @ + 1]
                /\ UNCHANGED << pc, error >>
           ELSE /\ pc' = "enum_done"
                /\ error' = IF r.kind = "raise" THEN "ValueError" ELSE "none"
                /\ UNCHANGED << prev, last, yieldCount, perLen >>
  /\ UNCHANGED << args, charset, min_len, max_len, total, samples, out_f, written,
                  status, decision, capChecks >>

NextEnum == CallEnumerateAll \/ NextWord

SpecEnum == InitEnum /\ [][NextEnum]_vars

\* ------------------------------------------------- sample_random on its own
SampleSymbols == { "a", "b" }

InitSample ==
  /\ pc = "sample_call"
  /\ args \in [ charset : BoundedSeq(SampleSymbols, MaxSampleAlpha),
                length : (-1)..MaxSampleLen, count : (-1)..MaxCount ]
  /\ Locals0

CallSampleRandom ==
  /\ pc = "sample_call"
  /\ IF args.charset = << >>
     THEN /\ error' = "ValueError"
          /\ pc' = "sample_raised"
          /\ UNCHANGED samples
     ELSE /\ samples' \in sample_random(args.charset, args.length, args.count)
          /\ pc' = "sample_done"
          /\ UNCHANGED error
  /\ UNCHANGED << args, charset, min_len, max_len, total, gen, prev, last, yieldCount,
                  perLen, out_f, written, status, decision, capChecks >>

NextSample == CallSampleRandom

SpecSample == InitSample /\ [][NextSample]_vars

\* -------------------------------------------------------------- main, run
\* An optional int of argparse (default None) is << >> or << v >>.
OptInts(S) == { << >> } \cup { << v >> : v \in S }

\* --length alone, or --min and --max, each given or not
LengthSpecs ==
  { [length |-> << l >>, min |-> << >>, max |-> << >>] : l \in (-1)..MaxMainLen }
  \cup { [length |-> << >>, min |-> a, max |-> b] :
           a \in OptInts(0..MaxMainLen), b \in OptInts(0..MaxMainLen) }

MainCaps == { 0, 10, 99, DEFAULT_MAX }

MainSamples == { -1, 0, 1 }

MainArgs ==
  { [ length |-> ls.length, min |-> ls.min, max |-> ls.max,
      lower |-> FALSE, upper |-> FALSE, digits |-> d, special |-> FALSE,
      extra_special |-> << >>, out |-> o, sample |-> sm, cap |-> c,
      force |-> f, show_stats |-> st ] :
    ls \in LengthSpecs, d \in BOOLEAN, o \in { "None", "words.txt" },
    sm \in MainSamples, c \in MainCaps, f \in BOOLEAN, st \in BOOLEAN }

\* "if args.out:" is false for None and for the empty string
truthy(out) == out # "None" /\ out # ""

InitMain ==
  /\ pc = "main_resolve"
  /\ args \in MainArgs
  /\ Locals0

\* lines 87-94
MainResolveLengths ==
  /\ pc = "main_resolve"
  /\ IF args.length # << >>
     THEN /\ min_len' = args.length[1]
          /\ max_len' = args.length[1]
          /\ pc' = "main_build"
          /\ UNCHANGED status
     ELSE IF args.min = << >> \/ args.max = << >>
          THEN /\ status' = << 1 >>
               /\ pc' = "done"
               /\ UNCHANGED << min_len, max_len >>
          ELSE /\ min_len' = args.min[1]
               /\ max_len' = args.max[1]
               /\ pc' = "main_build"
               /\ UNCHANGED status
  /\ UNCHANGED << args, charset, total, gen, prev, last, yieldCount, perLen, samples,
                  out_f, written, decision, capChecks, error >>

\* lines 97-101
MainBuildCharset ==
  /\ pc = "main_build"
  /\ charset' = build_charset(args.lower, args.upper, args.digits, args.special,
                              args.extra_special)
  /\ IF charset' = << >>
     THEN status' = << 1 >> /\ pc' = "done"
     ELSE UNCHANGED status /\ pc' = "main_total"
  /\ UNCHANGED << args, min_len, max_len, total, gen, prev, last, yieldCount, perLen,
                  samples, out_f, written, decision, capChecks, error >>

\* line 103
MainTotal ==
  /\ pc = "main_total"
  /\ total' = total_combinations(Len(charset), min_len, max_len)
  /\ pc' = "main_stats"
  /\ UNCHANGED << args, charset, min_len, max_len, gen, prev, last, yieldCount, perLen,
                  samples, out_f, written, status, decision, capChecks, error >>

\* lines 105-109
MainShowStats ==
  /\ pc = "main_stats"
  /\ IF args.show_stats
     THEN status' = << 0 >> /\ pc' = "done"
     ELSE UNCHANGED status /\ pc' = "main_sample"
  /\ UNCHANGED << args, charset, min_len, max_len, total, gen, prev, last, yieldCount,
                  perLen, samples, out_f, written, decision, capChecks, error >>

\* a mutant of MainSample that applies the cap to sampling
MainSample_capped ==
  /\ pc = "main_sample"
  /\ IF args.sample > 0
     THEN IF args.length = << >> \/ (BigGtInt(total, args.cap) /\ ~args.force)
          THEN /\ status' = << 1 >>
               /\ pc' = "done"
               /\ UNCHANGED << samples, out_f, written, error >>
          ELSE /\ samples' \in sample_random(charset, args.length[1], args.sample)
               /\ out_f' = IF truthy(args.out) THEN "closed" ELSE "none"
               /\ written' = Len(samples')
               /\ status' = << 0 >>
               /\ pc' = "done"
               /\ UNCHANGED error
     ELSE /\ pc' = "main_gate"
          /\ UNCHANGED << samples, out_f, written, status, error >>
  /\ UNCHANGED << args, charset, min_len, max_len, total, gen, prev, last, yieldCount,
                  perLen, decision, capChecks >>

\* lines 112-125: the samples are drawn, then written to the file (opened and
\* closed by the with statement) or printed
MainSample ==
  /\ pc = "main_sample"
  /\ IF args.sample > 0
     THEN IF args.length = << >>
          THEN /\ status' = << 1 >>
               /\ pc' = "done"
               /\ UNCHANGED << samples, out_f, written, error >>
          ELSE IF charset = << >>
               THEN /\ error' = "ValueError"
                    /\ status' = << 1 >>
                    /\ pc' = "done"
                    /\ UNCHANGED << samples, out_f, written >>
               ELSE /\ samples' \in sample_random(charset, args.length[1], args.sample)
                    /\ out_f' = IF truthy(args.out) THEN "closed" ELSE "none"
                    /\ written' = Len(samples')
                    /\ status' = << 0 >>
                    /\ pc' = "done"
                    /\ UNCHANGED error
     ELSE /\ pc' = "main_gate"
          /\ UNCHANGED << samples, out_f, written, status, error >>
  /\ UNCHANGED << args, charset, min_len, max_len, total, gen, prev, last, yieldCount,
                  perLen, decision, capChecks >>

\* lines 128-139: args.cap is read only when the total is not zero
MainGate ==
  /\ pc = "main_gate"
  /\ decision' = gate(total, args.cap, args.force)
  /\ capChecks' = IF total = << >> THEN capChecks ELSE capChecks + 1
  /\ IF decision'.kind = "Proceed"
     THEN UNCHANGED status /\ pc' = "main_open"
     ELSE status' = << 1 >> /\ pc' = "done"
  /\ UNCHANGED << args, charset, min_len, max_len, total, gen, prev, last, yieldCount,
                  perLen, samples, out_f, written, error >>

\* lines 142-150
MainOpenSink ==
  /\ pc = "main_open"
  /\ out_f' = IF truthy(args.out) THEN "open" ELSE "none"
  /\ written' = 0
  /\ pc' = "main_for"
  /\ UNCHANGED << args, charset, min_len, max_len, total, gen, prev, last, yieldCount,
                  perLen, samples, status, decision, capChecks, error >>

\* line 151, the iterable of the for statement is evaluated once
MainCallEnumerateAll ==
  /\ pc = "main_for"
  /\ gen' = enumerate_all(charset, min_len, max_len)
  /\ pc' = "main_next"
  /\ UNCHANGED << args, charset, min_len, max_len, total, prev, last, yieldCount, perLen,
                  samples, out_f, written, status, decision, capChecks, error >>

\* lines 151-153, one turn of the loop: the next word is asked for and written.
\* A ValueError of the generator leaves through the finally clause (lines
\* 159-161) and ends the process with status 1.
MainNextWord ==
  /\ pc = "main_next"
  /\ LET r == gen_next(gen)
     IN /\ gen' = r.gen
        /\ IF r.kind = "yield"
           THEN /\ prev' = last
                /\ last' = r.word
                /\ yieldCount' = yieldCount + 1
                /\ written' = written + 1
                /\ UNCHANGED << pc, out_f, status, error >>
           ELSE IF r.kind = "raise"
                THEN /\ error' = "ValueError"
                     /\ out_f' = IF out_f = "open" THEN "closed" ELSE out_f
                     /\ status' = << 1 >>
                     /\ pc' = "done"
                     /\ UNCHANGED << prev, last, yieldCount, written >>
                ELSE /\ pc' = "main_finish"
                     /\ UNCHANGED << prev, last, yieldCount, written, out_f, status, error >>
  /\ UNCHANGED << args, charset, min_len, max_len, total, perLen, samples, decision,
                  capChecks >>

\* lines 154-163
MainFinish ==
  /\ pc = "main_finish"
  /\ out_f' = IF out_f = "open" THEN "closed" ELSE out_f
  /\ status' = << 0 >>
  /\ pc' = "done"
  /\ UNCHANGED << args, charset, min_len, max_len, total, gen, prev, last, yieldCount,
                  perLen, samples, written, decision, capChecks, error >>

NextMain ==
  \/ MainResolveLengths
  \/ MainBuildCharset
  \/ MainTotal
  \/ MainShowStats
  \/ MainSample
  \/ MainGate
  \/ MainOpenSink
  \/ MainCallEnumerateAll
  \/ MainNextWord
  \/ MainFinish

SpecMain == InitMain /\ [][NextMain]_vars

\* ================================================================== claims
\* ------------------------------------------------------------------------ C7
\* the characters of the enabled classes; extra_special belongs to the
\* special class
EnabledConcat ==
  (IF args.use_lower THEN ascii_lowercase ELSE << >>)
  \o (IF args.use_upper THEN ascii_uppercase ELSE << >>)
  \o (IF args.use_digits THEN digits ELSE << >>)
  \o (IF args.use_special THEN common_specials ELSE << >>)
  \o (IF args.use_special THEN args.extra_special ELSE << >>)

EnabledChars == Range(EnabledConcat)

SetMin(S) == CHOOSE x \in S : \A y \in S : x <= y

\* C7: build_charset returns a duplicate-free sequence holding exactly the
\* distinct characters of the enabled classes (lowercase, uppercase, digits,
\* fixed specials, extra specials), ordered by their first occurrence in that
\* concatenation, so its length is the number of distinct enabled characters.
C7_CharsetDeduplicated ==
  pc = "charset_done" =>
    LET firstPos == [c \in EnabledChars |->
                       SetMin({ i \in 1..Len(EnabledConcat) : EnabledConcat[i] = c })]
    IN /\ Cardinality(Range(charset)) = Len(charset)
       /\ Range(charset) = EnabledChars
       /\ Len(charset) = Cardinality(EnabledChars)
       /\ \A i \in 1..(Len(charset) - 1) :
            firstPos[charset[i]] < firstPos[charset[i + 1]]

\* a character of extra_special that is also a fixed special and one that is
\* also a lowercase letter, with both classes enabled
C7_Witness ==
  /\ pc = "charset_done"
  /\ args.use_lower /\ args.use_special /\ ~args.use_upper /\ ~args.use_digits
  /\ args.extra_special = << "!", "a" >>
  /\ Len(charset) = Len(ascii_lowercase) + Len(common_specials)

\* ------------------------------------------------------------------------ C5
\* The value of a limb sequence is pinned down by its residues: the moduli
\* are distinct primes whose product exceeds BigBase^11, so two numbers below
\* BigBase^11 with the same residues are equal.
Moduli == { 213989, 213977, 213973, 213953, 213949, 213947, 213943, 213929, 213919 }

RECURSIVE BigMod(_, _)
BigMod(x, m) ==
  IF x = << >> THEN 0 ELSE (Head(x) + BigBase * BigMod(Tail(x), m)) % m

RECURSIVE PowMod(_, _, _)
PowMod(n, e, m) == IF e = 0 THEN 1 ELSE (PowMod(n, e - 1, m) * n) % m

RECURSIVE SumPowMod(_, _, _, _)
SumPowMod(n, a, b, m) ==
  IF a > b THEN 0 ELSE (PowMod(n, a, m) + SumPowMod(n, a + 1, b, m)) % m

WellFormedBig(x) ==
  /\ \A i \in 1..Len(x) : x[i] \in 0..(BigBase - 1)
  /\ x # << >> => x[Len(x)] # 0
  /\ Len(x) <= 11

\* C5: total_combinations(n, a, b) is 0 when n <= 0 or a < 1 or b < a and is
\* otherwise exactly the sum of n^L for L in a..b, however large (n^L when
\* a = b); it is 0 exactly when the alphabet is empty or the range invalid.
C5_TotalExact ==
  pc = "count_done" =>
    LET n == args.charset_len
        a == args.min_len
        b == args.max_len
        invalid == n <= 0 \/ a < 1 \/ b < a
    IN /\ invalid => total = << >>
       /\ ~invalid =>
            /\ WellFormedBig(total)
            /\ \A m \in Moduli : BigMod(total, m) = SumPowMod(n, a, b, m)
            /\ a = b => \A m \in Moduli : BigMod(total, m) = PowMod(n, a, m)
       /\ (total = << >>) <=> invalid

\* a total above 10^20, hence above 2^63
C5_Witness ==
  /\ pc = "count_done"
  /\ args.charset_len = MaxBase /\ args.min_len = 1 /\ args.max_len = MaxExp
  /\ Len(total) > 5

\* ------------------------------------------------------------------------ C1
RECURSIVE IntPow(_, _)
IntPow(n, e) == IF e = 0 THEN 1 ELSE n * IntPow(n, e - 1)

EnumValid ==
  args.charset # << >> /\ args.min_len >= 1 /\ args.max_len >= args.min_len

\* C1: for a non-empty alphabet and 1 <= min_len <= max_len the generator of
\* enumerate_all finishes without error having yielded exactly
\* total_combinations(len(alphabet), min_len, max_len) words, len(alphabet)^L
\* of them of each length L of the range and none of any other length.
C1_CountMatchesTotal ==
  (pc = "enum_done" /\ EnumValid) =>
    LET n == Len(args.charset)
    IN /\ error = "none"
       /\ gen.state = "done"
       /\ BigFromInt(yieldCount) = total_combinations(n, args.min_len, args.max_len)
       /\ \A L \in LenDom :
            perLen[L] = IF L \in args.min_len..args.max_len THEN IntPow(n, L) ELSE 0

\* alphabet "ab", lengths 1..2: six words
C1_Witness ==
  /\ pc = "enum_done"
  /\ args.charset = << "a", "b" >> /\ args.min_len = 1 /\ args.max_len = 2
  /\ yieldCount = 6

\* ------------------------------------------------------------------------ C2
\* the position of a symbol in the alphabet, counted from 0
SymbolPos(c) == (CHOOSE i \in 1..Len(args.charset) : args.charset[i] = c) - 1

\* a word read as a number in base len(alphabet), last position least
\* significant
RECURSIVE WordVal(_)
WordVal(w) ==
  IF w = << >> THEN 0
  ELSE WordVal(SubSeq(w, 1, Len(w) - 1)) * Len(args.charset) + SymbolPos(w[Len(w)])

\* how many words of the range come before w or are w, in the order: shorter
\* first, then by WordVal
RECURSIVE ShorterWords(_, _)
ShorterWords(L, upto) ==
  IF L >= upto THEN 0 ELSE IntPow(Len(args.charset), L) + ShorterWords(L + 1, upto)

WordRank(w) == ShorterWords(args.min_len, Len(w)) + WordVal(w) + 1

\* C2: for a duplicate-free alphabet and 1 <= min_len <= max_len the k-th
\* word yielded is the k-th word of the order (length first, then the
\* alphabet's symbol positions with the last position fastest): consecutive
\* words of one length differ by one odometer increment, a longer word only
\* follows the last word of the length before it, and no word comes twice.
C2_OdometerOrder ==
  (pc \in { "enum_iterating", "enum_done" } /\ EnumValid /\ yieldCount >= 1
     /\ Cardinality(Range(args.charset)) = Len(args.charset)) =>
    LET n == Len(args.charset)
    IN /\ Len(last) \in args.min_len..args.max_len
       /\ Range(last) \subseteq Range(args.charset)
       /\ WordRank(last) = yieldCount
       /\ yieldCount >= 2 =>
            \/ Len(last) = Len(prev) /\ WordVal(last) = WordVal(prev) + 1
            \/ /\ Len(last) = Len(prev) + 1
               /\ WordVal(prev) = IntPow(n, Len(prev)) - 1
               /\ WordVal(last) = 0
       /\ yieldCount >= 2 => last # prev
       /\ pc = "enum_done" =>
            Len(last) = args.max_len /\ WordVal(last) = IntPow(n, args.max_len) - 1

\* alphabet "ab", min = max = 2: "ba" is the third word, after "ab"
C2_Witness ==
  /\ pc = "enum_iterating"
  /\ args.charset = << "a", "b" >> /\ args.min_len = 2 /\ args.max_len = 2
  /\ prev = << "a", "b" >> /\ last = << "b", "a" >> /\ yieldCount = 3

\* ------------------------------------------------------------------------ C6
\* C6: with an empty alphabet, min_len < 1 or max_len < min_len, no word is
\* ever yielded and the ValueError is raised at the point enumerate_all is
\* invoked.
C6_EagerValidation ==
  (pc # "enum_call" /\ ~EnumValid) =>
    /\ yieldCount = 0
    /\ gen.state = "raised"

NonNeg(k) == IF k < 0 THEN 0 ELSE k

RECURSIVE BigToInt(_)
BigToInt(x) == IF x = << >> THEN 0 ELSE Head(x) + BigBase * BigToInt(Tail(x))

\* C3: the decision of the cap test is NothingToDo when total = 0, otherwise
\* Refuse carrying (total, cap) when total > cap and force is unset, otherwise
\* Proceed; total = cap unforced and total > cap forced are both Proceed.
C3_GateDecision ==
  decision.kind # "none" =>
    LET t == BigToInt(total)
    IN /\ t = 0 => decision = [kind |-> "NothingToDo", report |-> << >>]
       /\ (t # 0 /\ t > args.cap /\ ~args.force) =>
            decision = [kind |-> "Refuse", report |-> << total, args.cap >>]
       /\ (t # 0 /\ (t <= args.cap \/ args.force)) => decision.kind = "Proceed"
       /\ decision.kind \in { "NothingToDo", "Refuse", "Proceed" }

\* the boundary: total equal to the cap, force unset
C3_Witness ==
  /\ decision.kind = "Proceed"
  /\ BigToInt(total) = args.cap
  /\ ~args.force

\* ------------------------------------------------------------------------ C4
Enumerating == pc \in { "main_open", "main_for", "main_next", "main_finish" }

\* C4: the enumerator is started and enumerated words are written only in a
\* run whose cap test decided Proceed (total # 0 and total <= cap or force);
\* after Refuse or NothingToDo no sink is opened, no word is written and the
\* exit status is 1; the cap is read once, before streaming, and not again.
C4_GateBeforeEnumeration ==
  LET t == BigToInt(total)
  IN /\ (Enumerating \/ gen.state # "none" \/ yieldCount > 0) =>
          /\ decision.kind = "Proceed"
          /\ t # 0
          /\ t <= args.cap \/ args.force
          /\ capChecks = 1
     /\ (written > 0 /\ args.sample <= 0) => decision.kind = "Proceed"
     /\ decision.kind \in { "Refuse", "NothingToDo" } =>
          /\ pc = "done"
          /\ status = << 1 >>
          /\ out_f = "none"
          /\ written = 0
          /\ gen.state = "none"
     /\ capChecks <= 1

\* a forced run above the cap, streaming to a file
C4_Witness ==
  /\ pc = "main_next"
  /\ decision.kind = "Proceed"
  /\ BigToInt(total) > args.cap /\ args.force
  /\ out_f = "open"
  /\ written = 2

\* ------------------------------------------------------------------------ C9
SampleRun == args.sample > 0 /\ args.length # << >> /\ charset # << >>

SampleOutcome ==
  /\ status = << 0 >>
  /\ Len(samples) = args.sample
  /\ written = args.sample
  /\ gen.state = "none"
  /\ decision.kind = "none"
  /\ capChecks = 0

\* C9 as stated: whenever a positive sample count is requested with a fixed
\* --length and a non-empty alphabet, the run outputs that many sample words
\* and exits 0 whatever total, cap and force are; the enumerator is not
\* invoked and the cap is not applied.
C9_SamplingBypassesGate ==
  (pc = "done" /\ SampleRun) => SampleOutcome

\* C9 amended: the same, for the runs without --show-stats.
C9_SamplingBypassesGateNoStats ==
  (pc = "done" /\ SampleRun /\ ~args.show_stats) => SampleOutcome

\* a sample written although the total exceeds the cap and force is unset
C9_Witness ==
  /\ pc = "done"
  /\ SampleRun /\ ~args.show_stats
  /\ BigToInt(total) > args.cap /\ ~args.force
  /\ Len(samples) = 1 /\ status = << 0 >>

\* ----------------------------------------------------------------------- C10
\* C10: when main reaches the enumeration step the preconditions of
\* enumerate_all hold, because with a non-empty charset the total is positive
\* exactly when 1 <= min_len <= max_len; no ValueError is raised in main, and
\* none after the sink has been opened.
C10_EnumeratorPreconditions ==
  /\ error = "none"
  /\ gen.state # "raised"
  /\ Enumerating => charset # << >> /\ min_len >= 1 /\ max_len >= min_len
  /\ pc \in { "main_stats", "main_sample", "main_gate" } \/ Enumerating =>
       /\ charset # << >>
       /\ (total # << >>) <=> (min_len >= 1 /\ max_len >= min_len)

\* the generator has yielded into an open file
C10_Witness ==
  /\ pc = "main_next"
  /\ out_f = "open"
  /\ gen.state = "suspended"
  /\ written >= 1

====
